---- MODULE Spec2Model ----
(***************************************************************************)
(* Model of nengo/builder/learning_rules.py: the learning-rule operators   *)
(* (SimBCM, SimOja, SimVoja), the wiring functions (build_learning_rule,   *)
(* build_bcm, build_oja, build_voja, build_pes) and the per-timestep       *)
(* execution of the operators they register.                               *)
(*                                                                         *)
(* Numbers are integers: arithmetic is exact, and the time unit is chosen  *)
(* so that dt / n_neurons is an integer.  A signal's buffer is a matrix    *)
(* (a sequence of rows); a vector of length n is the n x 1 column and a    *)
(* 0-d scalar is the 1 x 1 matrix.                                         *)
(***************************************************************************)
EXTENDS Integers, Sequences, FiniteSets, TLC

VARIABLES cfg, pc, exc, operators, sig, params, signals, local_error,
          pending, step, last

vars == <<cfg, pc, exc, operators, sig, params, signals, local_error,
          pending, step, last>>

(***************************************************************************)
(* Bounds                                                                  *)
(***************************************************************************)
MaxNeurons == 2
MaxDims == 2
MaxSteps == 3

NeuronCounts == 1..MaxNeurons
DimCounts == 1..MaxDims
LearningRates == {2}
Betas == {3}
Gains == {2}
DtVals == {12}
InitFill == {1}

(***************************************************************************)
(* Matrices                                                                *)
(***************************************************************************)
Rows(M) == Len(M)
Cols(M) == IF Len(M) = 0 THEN 0 ELSE Len(M[1])
Fill(r, c, v) == [i \in 1..r |-> [j \in 1..c |-> v]]
Zeros(r, c) == Fill(r, c, 0)
Transpose(M) == [j \in 1..Cols(M) |-> [i \in 1..Rows(M) |-> M[i][j]]]
MatAdd(A, B) == [i \in 1..Rows(A) |-> [j \in 1..Cols(A) |-> A[i][j] + B[i][j]]]
Scale(k, M) == [i \in 1..Rows(M) |-> [j \in 1..Cols(M) |-> k * M[i][j]]]

RECURSIVE SumTo(_, _)
SumTo(f, n) == IF n = 0 THEN 0 ELSE f[n] + SumTo(f, n - 1)

MatMul(A, X) ==
    [i \in 1..Rows(A) |-> [j \in 1..Cols(X) |->
        SumTo([k \in 1..Cols(A) |-> A[i][k] * X[k][j]], Cols(A))]]

\* np.dot(A, X): a 0-d A multiplies every element of X
Dot(A, X) == IF Rows(A) = 1 /\ Cols(A) = 1 THEN Scale(A[1][1], X) ELSE MatMul(A, X)

Max(a, b) == IF a >= b THEN a ELSE b

\* A * X with numpy broadcasting of the axes of length one
BroadcastMul(A, X) ==
    [i \in 1..Max(Rows(A), Rows(X)) |-> [j \in 1..Max(Cols(A), Cols(X)) |->
        A[IF Rows(A) = 1 THEN 1 ELSE i][IF Cols(A) = 1 THEN 1 ELSE j]
      * X[IF Rows(X) = 1 THEN 1 ELSE i][IF Cols(X) = 1 THEN 1 ELSE j]]]

\* np.outer(a, b) of two vectors held as columns
Outer(a, b) == [i \in 1..Rows(a) |-> [j \in 1..Rows(b) |-> a[i][1] * b[j][1]]]

\* the activity vectors of length n a population or a filter may show: silent,
\* or neuron i firing at rate i
Ramp(n) == [i \in 1..n |-> <<i>>]
Activities(n) == {Zeros(n, 1), Ramp(n)}

\* the vectors of length n a connection may add to a rule's input in one step
Increments(n) == {Zeros(n, 1), Scale(-1, Ramp(n))}

(***************************************************************************)
(* Objects of the network and the signals the surrounding build made       *)
(***************************************************************************)
ObjKinds == {"Ensemble", "Neurons", "Node"}
NoAttr == "AttributeError"

PreObj(conn) ==
    CASE conn.pre_obj = "Ensemble" -> "pre_ens"
      [] conn.pre_obj = "Neurons" -> "pre_ens.neurons"
      [] OTHER -> "pre_node"

PostObj(conn) ==
    CASE conn.post_obj = "Ensemble" -> "post_ens"
      [] conn.post_obj = "Neurons" -> "post_ens.neurons"
      [] OTHER -> "post_node"

get_pre_ens(conn) ==
    IF conn.pre_obj = "Ensemble" THEN PreObj(conn)
    ELSE IF conn.pre_obj = "Neurons" THEN "pre_ens" ELSE NoAttr

get_post_ens(conn) ==
    IF conn.post_obj \in {"Ensemble", "Node"} THEN PostObj(conn)
    ELSE "post_ens"

\* obj.neurons: only an Ensemble has a neuron population
NeuronsOf(obj) ==
    IF obj \in {"pre_ens", "post_ens"} THEN obj \o ".neurons" ELSE NoAttr

\* model.sig[obj][name]
ModelSig(obj, name) == obj \o "." \o name

Common1 == "common.1"

\* the signals of the pre and post objects and of the connection
ExternalSignals(c) ==
    (Common1 :> Fill(1, 1, 1))
    @@ (ModelSig("conn", "weights") :> Fill(c.w_shape[1], c.w_shape[2], c.w0))
    @@ (ModelSig("conn", "out") :> Zeros(c.post_dims, 1))
    @@ (ModelSig(PreObj(c), "out") :> Zeros(c.pre_n, 1))
    @@ (ModelSig(PostObj(c), "out") :> Zeros(c.post_out_len, 1))
    @@ (IF c.pre_obj = "Node" THEN <<>>
        ELSE (ModelSig("pre_ens.neurons", "out") :> Zeros(c.pre_n, 1)))
    @@ (IF c.post_obj = "Node" THEN <<>>
        ELSE (ModelSig("post_ens.neurons", "out") :> Zeros(c.post_n, 1))
          @@ (ModelSig("post_ens", "encoders") :> Fill(c.post_n, c.post_dims, c.w0))
          @@ (ModelSig(PostObj(c), "encoders") :> Fill(c.post_n, c.post_dims, c.w0)))

HasSig(m, id) == id \in DOMAIN m.signals
ShapeOf(m, id) == <<Rows(m.signals[id]), Cols(m.signals[id])>>

(***************************************************************************)
(* Operators (nengo.builder.operator) and their declared dependency sets   *)
(***************************************************************************)
View(s, v) == [sig |-> s, view |-> v]
Base(s) == View(s, "base")

Reset(dst, value) ==
    [kind |-> "Reset", dst |-> dst, value |-> value, tag |-> "",
     sets |-> {dst}, incs |-> {}, reads |-> {}, updates |-> {}]

DotInc(A, X, Y, tag) ==
    [kind |-> "DotInc", A |-> A, X |-> X, Y |-> Y, tag |-> tag,
     sets |-> {}, incs |-> {Y}, reads |-> {A, X}, updates |-> {}]

ElementwiseInc(A, X, Y, tag) ==
    [kind |-> "ElementwiseInc", A |-> A, X |-> X, Y |-> Y, tag |-> tag,
     sets |-> {}, incs |-> {Y}, reads |-> {A.sig, X.sig}, updates |-> {}]

\* the operator the Lowpass synapse build registers
SimFilter(input, output) ==
    [kind |-> "SimFilter", input |-> input, output |-> output, tag |-> "",
     sets |-> {}, incs |-> {}, reads |-> {input}, updates |-> {output}]

\* the operator of a connection that ends on the rule's 'in' signal
ConnInc(Y) ==
    [kind |-> "ConnInc", Y |-> Y, tag |-> "",
     sets |-> {}, incs |-> {Y}, reads |-> {}, updates |-> {}]

SimBCM(pre_filtered, post_filtered, theta, delta, learning_rate) ==
    [kind |-> "SimBCM", pre_filtered |-> pre_filtered,
     post_filtered |-> post_filtered, theta |-> theta, delta |-> delta,
     learning_rate |-> learning_rate, tag |-> "",
     sets |-> {}, incs |-> {},
     reads |-> {pre_filtered, post_filtered, theta},
     updates |-> {delta}]

\* SimOja with the weights it reads left out of the declared reads
SimOja_weights_undeclared(pre_filtered, post_filtered, weights, delta, learning_rate, beta) ==
    [kind |-> "SimOja", pre_filtered |-> pre_filtered,
     post_filtered |-> post_filtered, weights |-> weights, delta |-> delta,
     learning_rate |-> learning_rate, beta |-> beta, tag |-> "",
     sets |-> {}, incs |-> {},
     reads |-> {pre_filtered, post_filtered},
     updates |-> {delta}]

SimOja(pre_filtered, post_filtered, weights, delta, learning_rate, beta) ==
    [kind |-> "SimOja", pre_filtered |-> pre_filtered,
     post_filtered |-> post_filtered, weights |-> weights, delta |-> delta,
     learning_rate |-> learning_rate, beta |-> beta, tag |-> "",
     sets |-> {}, incs |-> {},
     reads |-> {pre_filtered, post_filtered, weights},
     updates |-> {delta}]

SimVoja(pre_decoded, post_filtered, scaled_encoders, delta, scale, learning_signal, learning_rate) ==
    [kind |-> "SimVoja", pre_decoded |-> pre_decoded,
     post_filtered |-> post_filtered, scaled_encoders |-> scaled_encoders,
     delta |-> delta, scale |-> scale, learning_signal |-> learning_signal,
     learning_rate |-> learning_rate, tag |-> "",
     reads |-> {pre_decoded, post_filtered, scaled_encoders, learning_signal},
     updates |-> {delta}, sets |-> {}, incs |-> {}]

(***************************************************************************)
(* The model under construction: m.operators, m.sig (the entries of        *)
(* model.sig[rule]), m.params (whether model.params[rule] is set),         *)
(* m.signals (every allocated buffer), m.exc (the exception raised).       *)
(***************************************************************************)
Raise(m, e) == [m EXCEPT !.exc = e]

\* model.add_op(op)
add_op(m, op, by) ==
    [m EXCEPT !.operators = Append(@, op @@ [via |-> "add_op", by |-> by])]

\* model.operators.append(op)
operators_append(m, op, by) ==
    [m EXCEPT !.operators = Append(@, op @@ [via |-> "append", by |-> by])]

\* Signal(initial_value, name=name)
NewSignal(m, name, value) == [m EXCEPT !.signals = (name :> value) @@ @]

\* model.sig[rule][key] = signal
SetSig(m, key, signal) == [m EXCEPT !.sig = (key :> signal) @@ @]

SetParams(m) == [m EXCEPT !.params = TRUE]

LowpassOut(input) == "Lowpass(" \o input \o ")"

\* model.build(Lowpass(tau), input): a fresh signal of the input's shape
\* holding the filtered input, kept up to date by a filter operator
build_lowpass(m, input) ==
    add_op(NewSignal(m, LowpassOut(input),
                     Zeros(Rows(m.signals[input]), Cols(m.signals[input]))),
           SimFilter(input, LowpassOut(input)), "build_lowpass")

(***************************************************************************)
(* Wiring functions                                                        *)
(***************************************************************************)
build_bcm(m, bcm, rule) ==
    LET conn == rule.connection
        pre_ens == get_pre_ens(conn)
        pre_activities == ModelSig(NeuronsOf(pre_ens), "out")
        pre_filtered == LowpassOut(pre_activities)
        m1 == build_lowpass(m, pre_activities)
        post_neurons == NeuronsOf(get_post_ens(conn))
        post_activities == ModelSig(post_neurons, "out")
        post_filtered == LowpassOut(post_activities)
        m2 == build_lowpass(m1, post_activities)
        theta == LowpassOut(post_filtered)
        m3 == build_lowpass(m2, post_filtered)
        m4 == add_op(m3, SimBCM(pre_filtered, post_filtered, theta,
                                m.sig["delta"], bcm.learning_rate), "build_bcm")
        m5 == SetSig(SetSig(SetSig(m4, "theta", theta),
                            "pre_filtered", pre_filtered),
                     "post_filtered", post_filtered)
    IN  IF pre_ens = NoAttr THEN Raise(m, "AttributeError")
        ELSE IF post_neurons = NoAttr THEN Raise(m1, "AttributeError")
        ELSE SetParams(m5)

build_oja(m, oja, rule) ==
    LET conn == rule.connection
        pre_ens == get_pre_ens(conn)
        pre_activities == ModelSig(NeuronsOf(pre_ens), "out")
        post_neurons == NeuronsOf(get_post_ens(conn))
        post_activities == ModelSig(post_neurons, "out")
        pre_filtered == LowpassOut(pre_activities)
        m1 == build_lowpass(m, pre_activities)
        post_filtered == LowpassOut(post_activities)
        m2 == build_lowpass(m1, post_activities)
        m3 == add_op(m2, SimOja(pre_filtered, post_filtered,
                                ModelSig("conn", "weights"), m.sig["delta"],
                                oja.learning_rate, oja.beta), "build_oja")
        m4 == SetSig(SetSig(m3, "pre_filtered", pre_filtered),
                     "post_filtered", post_filtered)
    IN  IF pre_ens = NoAttr \/ post_neurons = NoAttr
        THEN Raise(m, "AttributeError")
        ELSE SetParams(m4)

\* model.params[post].gain / post.radius, one entry per neuron
EncoderScale(conn) == [i \in 1..conn.post_n |-> <<conn.gain_over_radius + i - 1>>]

build_voja(m, voja, rule) ==
    LET conn == rule.connection
        post == PostObj(conn)
        out == ModelSig(post, "out")
        m1 == IF voja.post_tau THEN build_lowpass(m, out) ELSE m
        post_filtered == IF voja.post_tau THEN LowpassOut(out) ELSE out
        learning == "Voja:learning"
        m2 == NewSignal(m1, learning, Zeros(rule.size_in, 1))
        m3 == add_op(m2, Reset(learning, 1), "build_voja")
        m4 == SetSig(m3, "in", learning)
        scaled_encoders == ModelSig(post, "encoders")
        encoder_scale == EncoderScale(conn)
        m5 == operators_append(m4,
                  SimVoja(ModelSig("conn", "out"), post_filtered,
                          scaled_encoders, m.sig["delta"], encoder_scale,
                          learning, voja.learning_rate), "build_voja")
        m6 == SetSig(SetSig(m5, "scaled_encoders", scaled_encoders),
                     "post_filtered", post_filtered)
    IN  IF rule.size_in # 1 THEN Raise(m2, "AssertionError")
        ELSE IF ~HasSig(m4, scaled_encoders) THEN Raise(m4, "KeyError")
        ELSE IF Rows(m4.signals[post_filtered]) # Rows(encoder_scale)
             THEN Raise(m4, "AssertionError")
        ELSE SetParams(m6)

\* conn.pre_obj.size_in of a pre object that is not an Ensemble
PreSizeIn(conn) == IF conn.pre_obj = "Neurons" THEN conn.pre_n ELSE conn.pre_size_in

\* build_pes, lines 295-301: the error input and the filtered activities
pes_error(m, pes, rule) ==
    LET conn == rule.connection
        error == "PES:error"
        m1 == add_op(NewSignal(m, error, Zeros(rule.size_in, 1)),
                     Reset(error, 0), "build_pes")
        m2 == SetSig(m1, "in", error)
    IN  build_lowpass(m2, ModelSig(PreObj(conn), "out"))

\* build_pes, lines 303-312: correction = -learning_rate * (dt / n_neurons) * error
pes_correction(m, pes, rule) ==
    LET conn == rule.connection
        error == "PES:error"
        correction == "PES:correction"
        m4 == add_op(NewSignal(m, correction, Zeros(Rows(m.signals[error]), 1)),
                     Reset(correction, 0), "build_pes")
        n_neurons == IF conn.pre_obj = "Ensemble" THEN conn.pre_n
                     ELSE PreSizeIn(conn)
        lr_sig == "PES:learning_rate"
        m5 == NewSignal(m4, lr_sig,
                        Fill(1, 1, ((-pes.learning_rate) * m.dt) \div n_neurons))
    IN  add_op(m5, DotInc(lr_sig, error, correction, "PES:correct"), "build_pes")

\* pes_local_error without the projection through the post encoders
pes_local_error_unencoded(m, pes, rule) ==
    LET conn == rule.connection
        correction == "PES:correction"
    IN  IF ~conn.is_factored \/ conn.pre_obj \in {"Ensemble", "Neurons"}
        THEN [m EXCEPT !.local_error = correction]
        ELSE Raise(m, "ValueError: 'pre' object not suitable for PES learning")

\* build_pes, lines 314-328: the local error, by connection topology
pes_local_error(m, pes, rule) ==
    LET conn == rule.connection
        correction == "PES:correction"
        post == get_post_ens(conn)
        weights == ModelSig("conn", "weights")
        encoders == ModelSig(post, "encoders")
        encoded == "PES:encoded"
        u1 == add_op(NewSignal(m, encoded, Zeros(Rows(m.signals[weights]), 1)),
                     Reset(encoded, 0), "build_pes")
        u2 == add_op(u1, DotInc(encoders, correction, encoded, "PES:encode"),
                     "build_pes")
    IN  IF ~conn.is_factored
        THEN IF ~HasSig(m, encoders) THEN Raise(m, "KeyError")
             ELSE [u2 EXCEPT !.local_error = encoded]
        ELSE IF conn.pre_obj \in {"Ensemble", "Neurons"}
        THEN [m EXCEPT !.local_error = correction]
        ELSE Raise(m, "ValueError: 'pre' object not suitable for PES learning")

\* pes_delta without the Reset of delta
pes_delta_noreset(m, pes, rule) ==
    LET acts == LowpassOut(ModelSig(PreObj(rule.connection), "out"))
        b2 == add_op(m, ElementwiseInc(View(m.local_error, "column"),
                                       View(acts, "row"),
                                       m.sig["delta"], "PES:Inc Delta"),
                     "build_pes")
        b3 == SetSig(SetSig(SetSig(b2, "error", "PES:error"),
                            "correction", "PES:correction"),
                     "activities", acts)
    IN  SetParams(b3)

\* pes_delta with the outer product added to the target instead of delta
pes_delta_on_target(m, pes, rule) ==
    LET acts == LowpassOut(ModelSig(PreObj(rule.connection), "out"))
        b1 == add_op(m, Reset(m.sig["delta"], 0), "build_pes")
        b2 == add_op(b1, ElementwiseInc(View(m.local_error, "column"),
                                        View(acts, "row"),
                                        m.operators[1].Y, "PES:Inc Delta"),
                     "build_pes")
        b3 == SetSig(SetSig(SetSig(b2, "error", "PES:error"),
                            "correction", "PES:correction"),
                     "activities", acts)
    IN  SetParams(b3)

\* build_pes, lines 330-341: delta = local_error * activities, and the probes
pes_delta(m, pes, rule) ==
    LET acts == LowpassOut(ModelSig(PreObj(rule.connection), "out"))
        b1 == add_op(m, Reset(m.sig["delta"], 0), "build_pes")
        b2 == add_op(b1, ElementwiseInc(View(m.local_error, "column"),
                                        View(acts, "row"),
                                        m.sig["delta"], "PES:Inc Delta"),
                     "build_pes")
        b3 == SetSig(SetSig(SetSig(b2, "error", "PES:error"),
                            "correction", "PES:correction"),
                     "activities", acts)
    IN  SetParams(b3)

build_pes(m, pes, rule) ==
    LET m6 == pes_correction(pes_error(m, pes, rule), pes, rule)
        m7 == pes_local_error(m6, pes, rule)
    IN  IF m7.exc # "none" THEN m7 ELSE pes_delta(m7, pes, rule)

\* model.build(rule.learning_rule_type, rule)
build_rule_type(m, rule) ==
    LET t == rule.learning_rule_type
    IN  CASE t.kind = "BCM" -> build_bcm(m, t, rule)
          [] t.kind = "Oja" -> build_oja(m, t, rule)
          [] t.kind = "Voja" -> build_voja(m, t, rule)
          [] t.kind = "PES" -> build_pes(m, t, rule)

\* delta_shape with the axes of the unfactored weights exchanged
delta_shape_swapped(rule) ==
    LET conn == rule.connection
    IN  IF rule.modifies = "encoders" THEN <<conn.post_n, conn.post_dims>>
        ELSE IF ~conn.is_factored THEN <<conn.pre_n, conn.post_n>>
        ELSE <<rule.size_in, conn.pre_n>>

\* build_learning_rule, lines 182-194: the shape of the delta signal
delta_shape(rule) ==
    LET conn == rule.connection
    IN  IF rule.modifies = "encoders" THEN <<conn.post_n, conn.post_dims>>
        ELSE IF ~conn.is_factored THEN <<conn.post_n, conn.pre_n>>
        ELSE <<rule.size_in, conn.pre_n>>

build_learning_rule(m, rule) ==
    LET conn == rule.connection
        Finish(target, tag) ==
            LET delta == "Delta"
                shape == delta_shape(rule)
                m1 == NewSignal(m, delta, Zeros(shape[1], shape[2]))
                m2 == add_op(m1, ElementwiseInc(Base(Common1), Base(delta),
                                                target, tag),
                             "build_learning_rule")
                m3 == SetSig(m2, "delta", delta)
            IN  IF ShapeOf(m1, delta) # ShapeOf(m1, target)
                THEN Raise(m1, "AssertionError")
                ELSE build_rule_type(m3, rule)
    IN  IF rule.modifies = "encoders"
        THEN \* the ValueError for an unfactored connection is built, not raised
             LET post == get_post_ens(conn)
                 target == ModelSig(post, "encoders")
             IN  IF ~HasSig(m, target) THEN Raise(m, "KeyError")
                 ELSE Finish(target, "encoders += delta")
        ELSE IF rule.modifies \in {"decoders", "weights"}
        THEN LET pre == get_pre_ens(conn)
                 target == ModelSig("conn", "weights")
             IN  IF pre = NoAttr THEN Raise(m, "AttributeError")
                 ELSE IF ~conn.is_factored /\ get_post_ens(conn) = "post_node"
                 THEN Raise(m, "AttributeError")
                 ELSE Finish(target, "weights += delta")
        ELSE Raise(m, "ValueError: Unknown target")

(***************************************************************************)
(* Step functions                                                          *)
(***************************************************************************)
\* the array a view of a signal denotes
ViewOf(sigs, ref) ==
    IF ref.view = "row" THEN Transpose(sigs[ref.sig]) ELSE sigs[ref.sig]

step_reset(op, sigs) ==
    [sigs EXCEPT ![op.dst] = Fill(Rows(@), Cols(@), op.value)]

step_dotinc(op, sigs) ==
    [sigs EXCEPT ![op.Y] = MatAdd(@, Dot(sigs[op.A], sigs[op.X]))]

step_elementwiseinc(op, sigs) ==
    [sigs EXCEPT ![op.Y] =
        MatAdd(@, BroadcastMul(ViewOf(sigs, op.A), ViewOf(sigs, op.X)))]

step_simbcm(op, sigs, dt) ==
    LET pre_filtered == sigs[op.pre_filtered]
        post_filtered == sigs[op.post_filtered]
        theta == sigs[op.theta]
        alpha == op.learning_rate * dt
        v == [i \in 1..Rows(post_filtered) |->
                <<alpha * post_filtered[i][1] * (post_filtered[i][1] - theta[i][1])>>]
    IN  [sigs EXCEPT ![op.delta] = Outer(v, pre_filtered)]

\* step_simoja with the forgetting term added to what delta held
step_simoja_accumulating(op, sigs, dt) ==
    LET weights == sigs[op.weights]
        pre_filtered == sigs[op.pre_filtered]
        post_filtered == sigs[op.post_filtered]
        alpha == op.learning_rate * dt
        beta == op.beta
        post_squared == [i \in 1..Rows(post_filtered) |->
                            alpha * post_filtered[i][1] * post_filtered[i][1]]
        forgetting == [i \in 1..Rows(weights) |-> [j \in 1..Cols(weights) |->
                            (-beta) * weights[i][j] * post_squared[i]]]
        update == Outer(Scale(alpha, post_filtered), pre_filtered)
    IN  [sigs EXCEPT ![op.delta] = MatAdd(MatAdd(@, forgetting), update)]

step_simoja(op, sigs, dt) ==
    LET weights == sigs[op.weights]
        pre_filtered == sigs[op.pre_filtered]
        post_filtered == sigs[op.post_filtered]
        alpha == op.learning_rate * dt
        beta == op.beta
        post_squared == [i \in 1..Rows(post_filtered) |->
                            alpha * post_filtered[i][1] * post_filtered[i][1]]
        forgetting == [i \in 1..Rows(weights) |-> [j \in 1..Cols(weights) |->
                            (-beta) * weights[i][j] * post_squared[i]]]
        update == Outer(Scale(alpha, post_filtered), pre_filtered)
    IN  [sigs EXCEPT ![op.delta] = MatAdd(forgetting, update)]

\* step_simvoja without the learning signal
step_simvoja_ungated(op, sigs, dt) ==
    LET pre_decoded == sigs[op.pre_decoded]
        post_filtered == sigs[op.post_filtered]
        scaled_encoders == sigs[op.scaled_encoders]
        alpha == op.learning_rate * dt
        scale == op.scale
        outer == Outer(post_filtered, pre_decoded)
    IN  [sigs EXCEPT ![op.delta] =
            [i \in 1..Rows(scaled_encoders) |-> [j \in 1..Cols(scaled_encoders) |->
                alpha * (scale[i][1] * outer[i][j]
                         - post_filtered[i][1] * scaled_encoders[i][j])]]]

step_simvoja(op, sigs, dt) ==
    LET pre_decoded == sigs[op.pre_decoded]
        post_filtered == sigs[op.post_filtered]
        scaled_encoders == sigs[op.scaled_encoders]
        learning_signal == sigs[op.learning_signal]
        alpha == op.learning_rate * dt
        scale == op.scale
        outer == Outer(post_filtered, pre_decoded)
    IN  [sigs EXCEPT ![op.delta] =
            [i \in 1..Rows(scaled_encoders) |-> [j \in 1..Cols(scaled_encoders) |->
                alpha * learning_signal[1][1] *
                    (scale[i][1] * outer[i][j]
                     - post_filtered[i][1] * scaled_encoders[i][j])]]]

\* the low-pass filter's new output: any activity vector
step_simfilter(op, sigs) ==
    {[sigs EXCEPT ![op.output] = v] : v \in Activities(Rows(sigs[op.output]))}

\* what the connection adds to the rule's input: any increment
step_conninc(op, sigs) ==
    {[sigs EXCEPT ![op.Y] = MatAdd(@, v)] : v \in Increments(Rows(sigs[op.Y]))}

\* the buffers an operator's step may leave behind
StepResults(op, sigs, dt) ==
    CASE op.kind = "Reset" -> {step_reset(op, sigs)}
      [] op.kind = "DotInc" -> {step_dotinc(op, sigs)}
      [] op.kind = "ElementwiseInc" -> {step_elementwiseinc(op, sigs)}
      [] op.kind = "SimBCM" -> {step_simbcm(op, sigs, dt)}
      [] op.kind = "SimOja" -> {step_simoja(op, sigs, dt)}
      [] op.kind = "SimVoja" -> {step_simvoja(op, sigs, dt)}
      [] op.kind = "SimFilter" -> step_simfilter(op, sigs)
      [] op.kind = "ConnInc" -> step_conninc(op, sigs)

\* op a runs before op b in a step: on a shared signal sets come first, then
\* incs, then reads, then updates
Precedes(a, b) ==
    \/ a.sets \cap (b.incs \cup b.reads \cup b.updates) # {}
    \/ a.incs \cap (b.reads \cup b.updates) # {}
    \/ a.reads \cap b.updates # {}

\* the operator's arrays have the shapes its step needs (numpy raises otherwise)
ShapesFit(op, sigs) ==
    LET sh(id) == <<Rows(sigs[id]), Cols(sigs[id])>>
        bc(a, x, y) == (a = x \/ a = 1 \/ x = 1) /\ y = Max(a, x)
    IN  CASE op.kind = "DotInc" ->
                IF sh(op.A) = <<1, 1>> THEN sh(op.X) = sh(op.Y)
                ELSE /\ Cols(sigs[op.A]) = Rows(sigs[op.X])
                     /\ sh(op.Y) = <<Rows(sigs[op.A]), Cols(sigs[op.X])>>
          [] op.kind = "ElementwiseInc" ->
                LET A == ViewOf(sigs, op.A)
                    X == ViewOf(sigs, op.X)
                IN  /\ bc(Rows(A), Rows(X), Rows(sigs[op.Y]))
                    /\ bc(Cols(A), Cols(X), Cols(sigs[op.Y]))
          [] op.kind = "SimBCM" ->
                /\ sh(op.delta) = <<Rows(sigs[op.post_filtered]), Rows(sigs[op.pre_filtered])>>
                /\ sh(op.theta) = sh(op.post_filtered)
          [] op.kind = "SimOja" ->
                /\ sh(op.delta) = <<Rows(sigs[op.post_filtered]), Rows(sigs[op.pre_filtered])>>
                /\ sh(op.weights) = sh(op.delta)
          [] op.kind = "SimVoja" ->
                /\ sh(op.delta) = <<Rows(sigs[op.post_filtered]), Rows(sigs[op.pre_decoded])>>
                /\ sh(op.scaled_encoders) = sh(op.delta)
                /\ Rows(op.scale) = Rows(sigs[op.post_filtered])
                /\ sh(op.learning_signal) = <<1, 1>>
          [] OTHER -> TRUE

(***************************************************************************)
(* Rules, connections and the model they are built into                    *)
(***************************************************************************)
Modifies == {"encoders", "decoders", "weights", "other"}

RuleTypes(H) ==
    {[kind |-> "BCM", learning_rate |-> lr, beta |-> 0, post_tau |-> FALSE] : lr \in H.lr}
    \cup {[kind |-> "Oja", learning_rate |-> lr, beta |-> b, post_tau |-> FALSE] :
            lr \in H.lr, b \in H.beta}
    \cup {[kind |-> "Voja", learning_rate |-> lr, beta |-> 0, post_tau |-> t] :
            lr \in H.lr, t \in BOOLEAN}
    \cup {[kind |-> "PES", learning_rate |-> lr, beta |-> 0, post_tau |-> FALSE] : lr \in H.lr}

\* the connections a rule of type t may sit on; the output width of the post
\* object and its gain are read by build_voja only
Connections(H, t) ==
    {[pre_obj |-> pre, post_obj |-> post, is_factored |-> f,
      pre_n |-> pn, post_n |-> qn, post_dims |-> d, w_shape |-> w,
      pre_size_in |-> ps, post_out_len |-> ol, gain_over_radius |-> g, w0 |-> w0] :
        pre \in H.pre, post \in H.post, f \in BOOLEAN,
        pn \in NeuronCounts, qn \in NeuronCounts, d \in DimCounts,
        w \in (NeuronCounts \cup DimCounts) \X NeuronCounts,
        ps \in NeuronCounts, ol \in NeuronCounts, g \in H.gain, w0 \in H.w0}

Normal(t, c) ==
    /\ c.pre_obj # "Node" => c.pre_size_in = c.pre_n
    /\ t.kind # "Voja" => c.post_out_len = c.post_n

\* the model before the rule is built
NewModel(rule) ==
    [operators |-> <<>>, sig |-> <<>>, params |-> FALSE,
     signals |-> ExternalSignals(rule.connection),
     local_error |-> "none", exc |-> "none", dt |-> rule.dt]

\* the rule builds and every operator's arrays fit
Simulable(rule) ==
    LET m == build_learning_rule(NewModel(rule), rule)
    IN  /\ m.exc = "none"
        /\ \A i \in 1..Len(m.operators) : ShapesFit(m.operators[i], m.signals)

BuildHypers ==
    [lr |-> {1}, beta |-> {1}, gain |-> {1}, w0 |-> {1},
     pre |-> ObjKinds, post |-> ObjKinds]

SimHypers ==
    [lr |-> LearningRates, beta |-> Betas, gain |-> Gains, w0 |-> InitFill,
     pre |-> ObjKinds, post |-> {"Ensemble"}]

\* PES on a factored connection from a Node
PesFromNode(rule) ==
    /\ rule.learning_rule_type.kind = "PES"
    /\ rule.connection.is_factored
    /\ rule.connection.pre_obj = "Node"

(***************************************************************************)
(* State machine                                                           *)
(***************************************************************************)
InitWith(H) ==
    /\ \E t \in RuleTypes(H), mo \in Modifies, si \in DimCounts, dt \in DtVals :
         \E c \in Connections(H, t) :
            /\ Normal(t, c)
            /\ cfg = [connection |-> c, modifies |-> mo, size_in |-> si,
                      learning_rule_type |-> t, dt |-> dt]
    /\ pc = "start"
    /\ exc = "none"
    /\ operators = <<>>
    /\ sig = <<>>
    /\ params = FALSE
    /\ signals = ExternalSignals(cfg.connection)
    /\ local_error = "none"
    /\ pending = {}
    /\ step = 0
    /\ last = 0

\* the weights of a connection have one column per pre neuron and, when the
\* connection is not factored, one row per post neuron
WellFormed(conn) ==
    /\ conn.w_shape[2] = conn.pre_n
    /\ ~conn.is_factored => conn.w_shape[1] = conn.post_n

\* the rules whose operators are run: those that build into operators whose
\* arrays fit, and PES on a factored connection from a Node
Init ==
    /\ InitWith(SimHypers)
    /\ WellFormed(cfg.connection)
    /\ Simulable(cfg) \/ PesFromNode(cfg)

InitBuild == InitWith(BuildHypers)

\* Builder dispatch of the rule: build_learning_rule and the builder of the
\* rule's type that it calls
BuildRule ==
    /\ pc = "start"
    /\ LET m == build_learning_rule(NewModel(cfg), cfg)
       IN  /\ operators' = m.operators
           /\ sig' = m.sig
           /\ params' = m.params
           /\ signals' = m.signals
           /\ local_error' = m.local_error
           /\ exc' = m.exc
           /\ pc' = IF m.exc = "none" THEN "built" ELSE "failed"
    /\ UNCHANGED <<cfg, pending, step, last>>

\* a connection is made onto the rule's input signal
AttachInput ==
    /\ pc = "built"
    /\ "in" \in DOMAIN sig
    /\ \A i \in 1..Len(operators) : operators[i].kind # "ConnInc"
    /\ operators' = Append(operators,
            ConnInc(sig["in"]) @@ [via |-> "add_op", by |-> "build_connection"])
    /\ UNCHANGED <<cfg, pc, exc, sig, params, signals, local_error, pending, step, last>>

\* signals no operator of the model writes and a learning operator reads raw
RawInputs ==
    {ModelSig("conn", "out"), ModelSig(PostObj(cfg.connection), "out")}
    \cap UNION {operators[i].reads : i \in 1..Len(operators)}

\* a timestep begins: the activities of the network have moved on
Advance ==
    /\ pc \in {"built", "run"}
    /\ pending = {}
    /\ step < MaxSteps
    /\ \A i \in 1..Len(operators) : ShapesFit(operators[i], signals)
    /\ \E f \in [RawInputs -> BOOLEAN] :
          signals' = [id \in DOMAIN signals |->
                        IF id \notin RawInputs THEN signals[id]
                        ELSE IF f[id] THEN Ramp(Rows(signals[id]))
                        ELSE Zeros(Rows(signals[id]), 1)]
    /\ pc' = "run"
    /\ pending' = 1..Len(operators)
    /\ step' = step + 1
    /\ last' = 0
    /\ UNCHANGED <<cfg, exc, operators, sig, params, local_error>>

\* the simulator runs the next operator of the step
RunOp ==
    /\ pc = "run"
    /\ \E i \in pending :
          /\ \A j \in pending \ {i} : ~Precedes(operators[j], operators[i])
          /\ signals' \in StepResults(operators[i], signals, cfg.dt)
          /\ pending' = pending \ {i}
          /\ last' = i
    /\ UNCHANGED <<cfg, pc, exc, operators, sig, params, local_error, step>>

Next == BuildRule \/ AttachInput \/ Advance \/ RunOp

Spec == Init /\ [][Next]_vars

SpecBuild == InitBuild /\ [][BuildRule]_vars

(***************************************************************************)
(* Properties                                                              *)
(***************************************************************************)
Conn == cfg.connection
RuleType == cfg.learning_rule_type
OpIdx == 1..Len(operators)
CoreBuilders == {"build_learning_rule", "build_bcm", "build_oja", "build_voja", "build_pes"}

\* the matrix the rule learns on
TargetOf(rule) ==
    IF rule.modifies = "encoders"
    THEN ModelSig(get_post_ens(rule.connection), "encoders")
    ELSE ModelSig("conn", "weights")

\* the operator carrying a tag
Tagged(tag) == CHOOSE i \in OpIdx : operators[i].tag = tag

\* operator i has run in the current step
Ran(i) == pc = "run" /\ i \notin pending

\* the simulator runs operator i in this transition
Runs(i) == pc = "run" /\ i \in pending /\ last' = i /\ pending' = pending \ {i}

NonZero(M) == \E i \in 1..Rows(M) : \E j \in 1..Cols(M) : M[i][j] # 0

UnfactoredError == "ValueError: Cannot perform encoder learning on an unfactored connection"
UnknownTarget == "ValueError: Unknown target"
UnsuitablePre == "ValueError: 'pre' object not suitable for PES learning"
ConfigErrors == {UnfactoredError, UnknownTarget, UnsuitablePre, "AssertionError"}

\* C1: building a rule that modifies 'encoders' on a connection that is not
\* factored fails with the unfactored-encoder-learning error, and registers
\* no operator, allocates no delta and calls no type-specific builder.
C1_UnfactoredEncodersRejected ==
    (pc # "start" /\ cfg.modifies = "encoders" /\ ~Conn.is_factored)
        => /\ pc = "failed"
           /\ exc = UnfactoredError
           /\ operators = <<>>
           /\ "Delta" \notin DOMAIN signals

\* C2: when the build fails with a configuration error, the model's operators
\* and its model.sig[rule] entries are what they were before the build.
C2_NoPartialConstruction ==
    (pc = "failed" /\ exc \in ConfigErrors)
        => operators = <<>> /\ DOMAIN sig = {}

\* C10: every operator created by the wiring functions of this module has
\* entered the model through model.add_op.
C10_EveryOperatorViaAddOp ==
    \A i \in OpIdx :
        operators[i].by \in CoreBuilders => operators[i].via = "add_op"

\* C4: once build_learning_rule is past its shape check, delta is all zero,
\* of shape (post neurons x post dimensions) for 'encoders',
\* (post neurons x pre neurons) for 'decoders'/'weights' unfactored and
\* (size_in x pre neurons) for 'decoders'/'weights' factored, and the target
\* has that shape; the accumulate operator is registered only then.
C4_DeltaShape ==
    (pc # "start" /\ (operators # <<>> \/ "delta" \in DOMAIN sig)) =>
        LET expected ==
                CASE cfg.modifies = "encoders" -> <<Conn.post_n, Conn.post_dims>>
                  [] cfg.modifies \in {"decoders", "weights"} /\ ~Conn.is_factored ->
                        <<Conn.post_n, Conn.pre_n>>
                  [] cfg.modifies \in {"decoders", "weights"} /\ Conn.is_factored ->
                        <<cfg.size_in, Conn.pre_n>>
                  [] OTHER -> <<0, 0>>
        IN  /\ operators # <<>>
            /\ operators[1].kind = "ElementwiseInc"
            /\ operators[1].Y = TargetOf(cfg)
            /\ operators[1].X.sig = "Delta"
            /\ signals["Delta"] = Zeros(expected[1], expected[2])
            /\ <<Rows(signals[TargetOf(cfg)]), Cols(signals[TargetOf(cfg)])>> = expected

C4_Witness ==
    /\ pc = "built"
    /\ cfg.modifies = "weights"
    /\ ~Conn.is_factored
    /\ Conn.pre_n = 1
    /\ Conn.post_n = 2
    /\ signals["Delta"] = <<<<0>>, <<0>>>>
    /\ operators[1].tag = "weights += delta"

\* C6: no operator sets or updates the target; exactly one operator, the
\* accumulate ElementwiseInc of build_learning_rule, increments it; no other
\* operator reads delta; every other operator writes only signals made
\* during the rule's build.
C6_TargetOnlyAccumulated ==
    (pc # "start" /\ operators # <<>>) =>
        LET target == TargetOf(cfg)
        IN  /\ \A i \in OpIdx : target \notin operators[i].sets \cup operators[i].updates
            /\ {i \in OpIdx : target \in operators[i].incs} = {1}
            /\ operators[1].kind = "ElementwiseInc"
            /\ operators[1].by = "build_learning_rule"
            /\ operators[1].X.sig = "Delta"
            /\ \A i \in OpIdx : "Delta" \in operators[i].reads => i = 1
            /\ \A i \in OpIdx \ {1} :
                  (operators[i].sets \cup operators[i].incs \cup operators[i].updates)
                      \cap DOMAIN ExternalSignals(Conn) = {}

C6_Witness ==
    /\ pc = "built"
    /\ RuleType.kind = "Oja"
    /\ cfg.modifies = "weights"
    /\ \E i \in OpIdx : operators[i].kind = "SimOja" /\ TargetOf(cfg) \in operators[i].reads
    /\ \E i \in OpIdx : "Delta" \in operators[i].updates

C7_PesDeltaPerStep ==
    [][\A i \in OpIdx :
        (RuleType.kind = "PES" /\ Runs(i)) =>
            LET op == operators[i]
                inc == Tagged("PES:Inc Delta")
                n_neurons == IF Conn.pre_obj = "Node" THEN Conn.pre_size_in
                             ELSE Conn.pre_n
            IN  /\ i = inc =>
                      signals'[sig["delta"]] =
                          Outer(signals[local_error], signals[sig["activities"]])
                /\ (i # inc /\ Ran(inc)) =>
                      signals'[sig["delta"]] = signals[sig["delta"]]
                /\ i = 1 =>
                      /\ Ran(inc)
                      /\ signals'[TargetOf(cfg)] =
                            MatAdd(signals[TargetOf(cfg)], signals[sig["delta"]])
                /\ op.tag = "PES:correct" =>
                      /\ \A j \in pending : operators[j].kind # "ConnInc"
                      /\ signals'[sig["correction"]] =
                            Scale((-RuleType.learning_rate) * (cfg.dt \div n_neurons),
                                  signals[sig["error"]])
      ]_vars

C7_Witness ==
    /\ RuleType.kind = "PES"
    /\ pc = "run"
    /\ Ran(Tagged("PES:Inc Delta"))
    /\ 1 \in pending
    /\ NonZero(signals["Delta"])
    /\ signals["Delta"] = Outer(signals[local_error], signals[sig["activities"]])
    /\ signals[TargetOf(cfg)] # ExternalSignals(Conn)[TargetOf(cfg)]

LearningKinds == {"SimBCM", "SimOja", "SimVoja"}

\* every element of signal s raised by one
Bump(sigs, s) ==
    [sigs EXCEPT ![s] = [i \in 1..Rows(sigs[s]) |->
                            [j \in 1..Cols(sigs[s]) |-> sigs[s][i][j] + 1]]]

\* C5: SimBCM, SimOja and SimVoja declare no sets and no incs and delta as
\* their only update; the declaration never changes; a step changes no
\* signal but delta, and what it writes does not depend on any signal
\* outside reads and updates.
C5_DeclaredSetsHonoured ==
    [][\A i \in OpIdx :
        operators[i].kind \in LearningKinds =>
            LET op == operators[i]
            IN  /\ op.sets = {} /\ op.incs = {}
                /\ op.updates = {op.delta}
                /\ op.delta \notin op.reads
                /\ i \in 1..Len(operators') /\ operators'[i] = op
                /\ Runs(i) =>
                      /\ \A s \in DOMAIN signals \ {op.delta} :
                            signals'[s] = signals[s]
                      /\ \A s \in DOMAIN signals \ (op.reads \cup op.updates) :
                            \A r \in StepResults(op, Bump(signals, s), cfg.dt) :
                                r[op.delta] = signals'[op.delta]
      ]_vars

C5_Witness ==
    /\ pc = "run"
    /\ last # 0
    /\ operators[last].kind = "SimBCM"
    /\ NonZero(signals["Delta"])
    /\ signals[TargetOf(cfg)] # ExternalSignals(Conn)[TargetOf(cfg)]

\* C8: SimVoja's step leaves delta[i][j] = alpha * learning_signal *
\* (scale[i] * post_filtered[i] * pre_decoded[j] - post_filtered[i] *
\* scaled_encoders[i][j]) with alpha = learning_rate * dt; with
\* learning_signal = 0 delta is all zero.
C8_VojaFormula ==
    [][\A i \in OpIdx :
        (operators[i].kind = "SimVoja" /\ Runs(i)) =>
            LET op == operators[i]
                alpha == RuleType.learning_rate * cfg.dt
                ls == signals[sig["in"]][1][1]
                post == signals[sig["post_filtered"]]
                x == signals[ModelSig("conn", "out")]
                e == signals[sig["scaled_encoders"]]
                scale == EncoderScale(Conn)
                d == signals'[sig["delta"]]
            IN  /\ Rows(d) = Conn.post_n /\ Cols(d) = Rows(x)
                /\ \A r \in 1..Rows(d) : \A c \in 1..Cols(d) :
                      d[r][c] = alpha * ls *
                          (scale[r][1] * post[r][1] * x[c][1] - post[r][1] * e[r][c])
                /\ ls = 0 => d = Zeros(Rows(d), Cols(d))
      ]_vars

C8_Witness ==
    /\ pc = "run"
    /\ last # 0
    /\ operators[last].kind = "SimVoja"
    /\ signals["Voja:learning"] = <<<<0>>>>
    /\ NonZero(signals[sig["post_filtered"]])
    /\ NonZero(signals[ModelSig("conn", "out")])
    /\ signals["Delta"] = Zeros(Conn.post_n, Conn.post_dims)
    /\ signals[TargetOf(cfg)] # ExternalSignals(Conn)[TargetOf(cfg)]

\* C9: SimOja's step leaves delta[i][j] = -beta * weights[i][j] * alpha *
\* post_filtered[i]^2 + alpha * post_filtered[i] * pre_filtered[j] with
\* alpha = learning_rate * dt, whatever delta held before; so delta is zero
\* when post_filtered is zero and is the negative forgetting term alone when
\* pre_filtered is zero.
C9_OjaFormula ==
    [][\A i \in OpIdx :
        (operators[i].kind = "SimOja" /\ Runs(i)) =>
            LET alpha == RuleType.learning_rate * cfg.dt
                beta == RuleType.beta
                w == signals[ModelSig("conn", "weights")]
                pre == signals[sig["pre_filtered"]]
                post == signals[sig["post_filtered"]]
                d == signals'[sig["delta"]]
            IN  /\ Rows(d) = Rows(post) /\ Cols(d) = Rows(pre)
                /\ \A r \in 1..Rows(d) : \A c \in 1..Cols(d) :
                      d[r][c] = (-beta) * w[r][c] * alpha * post[r][1] * post[r][1]
                                + alpha * post[r][1] * pre[c][1]
                /\ ~NonZero(post) => ~NonZero(d)
                /\ ~NonZero(pre) =>
                      \A r \in 1..Rows(d) : \A c \in 1..Cols(d) :
                          /\ d[r][c] = -(beta * w[r][c] * alpha * post[r][1] * post[r][1])
                          /\ (post[r][1] # 0 /\ w[r][c] > 0) => d[r][c] < 0
      ]_vars

C9_Witness ==
    /\ pc = "run"
    /\ last # 0
    /\ operators[last].kind = "SimOja"
    /\ NonZero(signals[sig["post_filtered"]])
    /\ ~NonZero(signals[sig["pre_filtered"]])
    /\ \A r \in 1..Rows(signals["Delta"]) : \A c \in 1..Cols(signals["Delta"]) :
          signals["Delta"][r][c] < 0
    /\ signals[TargetOf(cfg)] # ExternalSignals(Conn)[TargetOf(cfg)]

====
